---------------------------- MODULE Spec2Model ----------------------------
(***************************************************************************)
(* A model of hal (src/src/main.rs): one run of main, statement by         *)
(* statement.  The command line, the local clock, the heliocron event      *)
(* calculator and the file system are the environment; their answers are   *)
(* drawn from small sets.  Text is a sequence of one-character strings, so *)
(* that what reaches stdout or the file can be compared byte for byte.     *)
(* Coordinates are whole degrees, times whole seconds, and the pretty       *)
(* Debug text of Opt is shortened to its values.  Whether serde_json is    *)
(* built with preserve_order is set outside main.rs and is left open.      *)
(***************************************************************************)
EXTENDS Integers, Sequences, FiniteSets

VARIABLES
    pc,              \* the statement of main that runs next
    argv,            \* the command line as typed: lat, lon, off, verbose, out
    preserve_order,  \* serde_json's preserve_order feature (set by the manifest)
    clock,           \* the local clock: calendar day and UTC offset (seconds)
    ticks,           \* how often the clock changed during the run
    opt,             \* Opt::from_args()
    noon,            \* Local::today().and_hms(12, 0, 0), the first clock reading
    config,          \* config::Config (date, offset of the date, coordinates)
    samples,         \* the clock readings taken, in order
    sunrise,         \* EventTime of calc("sunrise")
    sunset,          \* EventTime of calc("sunset")
    calls,           \* calculate_event_time invocations per event
    sunrise_sunset_json, \* the serde_json Map: a sequence of <<key, value>>
    stdout,          \* the writes to standard output, one per println!
    file0,           \* the named file before the run
    file,            \* the named file now
    emits,           \* how often the JSON document was handed to the sink
    outcome          \* running, ok, usage_error, panic, io_error

vars == <<pc, argv, preserve_order, clock, ticks, opt, noon, config, samples,
          sunrise, sunset, calls, sunrise_sunset_json, stdout, file0, file,
          emits, outcome>>

----------------------------------------------------------------------------
(* Bounds of the model *)

MaxVerbose == 3
MaxTicks == 1

----------------------------------------------------------------------------
(* Values *)

None == [some |-> FALSE]
Some(v) == [some |-> TRUE, val |-> v]

NL == "\n"
Q == "\""

SecondsPerDay == 24 * 60 * 60

\* The command lines tried: degrees (whole ones stand for the f64 values),
\* minutes, -v occurrences, --out given or not.
LatArgs == {40, 91}
LonArgs == {-74, 181}
OffsetArgs == {-30, 0, 30}
OutArgs == {None, Some(<<"o", "u", "t">>)}

\* UTC offsets the local clock may have (EST, EDT), and calendar days.
UtcOffsets == {-5 * 3600, -4 * 3600}
FirstDay == {1}

\* What the event calculator may answer: seconds after UTC midnight of the
\* calculation date.  12:12:36Z and 22:03:42Z are 07:12:36 and 17:03:42 at
\* -05:00; 03:30:00Z is the evening before at -05:00 and -04:00.
EventInstants == {12 * 3600 + 12 * 60 + 36, 22 * 3600 + 3 * 60 + 42, 3 * 3600 + 30 * 60}

\* What the named file may hold before the run.
OldFiles == {None, Some(<<"o", "l", "d">>)}

----------------------------------------------------------------------------
(* Pure functions *)

Digits == <<"0", "1", "2", "3", "4", "5", "6", "7", "8", "9">>

\* {} of an unsigned integer
RECURSIVE Dec(_)
Dec(n) == IF n < 10 THEN <<Digits[n + 1]>> ELSE Dec(n \div 10) \o <<Digits[(n % 10) + 1]>>

Pad2(n) == <<Digits[(n \div 10) + 1], Digits[(n % 10) + 1]>>

\* DateTime<FixedOffset>::time(): the wall-clock time of day at the value's
\* own offset, in seconds after local midnight.
TimeOf(dt) == (dt.secs + dt.off) % SecondsPerDay

\* Display of a NaiveTime with no fractional second: %H:%M:%S
FormatTime(t) ==
    Pad2(t \div 3600) \o <<":">> \o Pad2((t \div 60) % 60) \o <<":">> \o Pad2(t % 60)

\* let just_time = |ev| ev.datetime.unwrap().time(): the caller checks Some
just_time(ev) == TimeOf(ev.val)

KeyDayStart == <<"d", "a", "y", "_", "s", "t", "a", "r", "t">>
KeyDayEnd == <<"d", "a", "y", "_", "e", "n", "d">>

\* The bytes of the key characters, in ASCII order.
Ascii == <<"_", "a", "d", "e", "n", "r", "s", "t", "y">>
Code(c) == CHOOSE i \in 1..Len(Ascii) : Ascii[i] = c

\* Ord for String: lexicographic on bytes
RECURSIVE StrLess(_, _)
StrLess(a, b) ==
    IF b = <<>> THEN FALSE
    ELSE IF a = <<>> THEN TRUE
    ELSE IF Head(a) = Head(b) THEN StrLess(Tail(a), Tail(b))
    ELSE Code(Head(a)) < Code(Head(b))

\* BTreeMap::insert: entries stay sorted by key, an equal key is overwritten
RECURSIVE BTreeInsert(_, _, _)
BTreeInsert(m, k, v) ==
    IF m = <<>> THEN <<(<<k, v>>)>>
    ELSE IF Head(m)[1] = k THEN <<(<<k, v>>)>> \o Tail(m)
    ELSE IF StrLess(k, Head(m)[1]) THEN <<(<<k, v>>)>> \o m
    ELSE <<Head(m)>> \o BTreeInsert(Tail(m), k, v)

\* IndexMap::insert: a new key goes last, an equal key keeps its place
RECURSIVE IndexInsert(_, _, _)
IndexInsert(m, k, v) ==
    IF m = <<>> THEN <<(<<k, v>>)>>
    ELSE IF Head(m)[1] = k THEN <<(<<k, v>>)>> \o Tail(m)
    ELSE <<Head(m)>> \o IndexInsert(Tail(m), k, v)

\* serde_json::Map::insert
MapInsert(m, k, v) == IF preserve_order THEN IndexInsert(m, k, v) ELSE BTreeInsert(m, k, v)

\* The two values exchanged: what json! would build with sunrise and sunset
\* mixed up.
JsonSwapped(start, end) == MapInsert(MapInsert(<<>>, KeyDayStart, end), KeyDayEnd, start)

\* json!({ "day_start": start, "day_end": end }): the keys are inserted in
\* the order written
Json(start, end) == MapInsert(MapInsert(<<>>, KeyDayStart, start), KeyDayEnd, end)

JsonString(s) == <<Q>> \o s \o <<Q>>

RECURSIVE Members(_)
Members(m) ==
    IF m = <<>> THEN <<>>
    ELSE JsonString(Head(m)[1]) \o <<":">> \o JsonString(Head(m)[2])
         \o (IF Tail(m) = <<>> THEN <<>> ELSE <<",">> \o Members(Tail(m)))

\* The compact serializer behind Value::to_string and serde_json::to_writer
to_string(m) == <<"{">> \o Members(m) \o <<"}">>

RECURSIVE Flatten(_)
Flatten(ws) == IF ws = <<>> THEN <<>> ELSE Head(ws) \o Flatten(Tail(ws))

\* println!: the text and a line terminator, one write
Println(text) == text \o <<NL>>

\* "{:#?}" of Opt, shortened to the fields' values
DebugOpt(o) ==
    <<"O", "p", "t", " ">> \o Dec(o.verbose) \o <<" ">> \o Dec(o.time_offset)

TimeOffsetLine(o) ==
    <<"t", "i", "m", "e", "_", "o", "f", "f", "s", "e", "t", " ">> \o Dec(o.time_offset)

SunLine(rise, set) ==
    <<"s", "u", "n", "r", "i", "s", "e", ":", " ">> \o FormatTime(rise)
    \o <<" ", "s", "u", "n", "s", "e", "t", ":", " ">> \o FormatTime(set)

----------------------------------------------------------------------------
(* The run *)

Init ==
    /\ pc = "from_args"
    /\ argv \in [lat : LatArgs, lon : LonArgs, off : OffsetArgs,
                 verbose : 0..MaxVerbose, out : OutArgs]
    /\ preserve_order \in BOOLEAN
    /\ clock \in [day : FirstDay, off : UtcOffsets]
    /\ ticks = 0
    /\ opt = None
    /\ noon = None
    /\ config = None
    /\ samples = <<>>
    /\ sunrise = None
    /\ sunset = None
    /\ calls = [e \in {"sunrise", "sunset"} |-> 0]
    /\ sunrise_sunset_json = None
    /\ stdout = <<>>
    /\ file0 \in OldFiles
    /\ file = file0
    /\ emits = 0
    /\ outcome = "running"

\* The environment: midnight passes, or the zone's offset changes, while the
\* program is still reading the clock.
Tick ==
    /\ pc \in {"from_args", "dump_opt", "today", "today_offset"}
    /\ ticks < MaxTicks
    /\ \E d \in {clock.day, clock.day + 1}, o \in UtcOffsets :
          /\ <<d, o>> # <<clock.day, clock.off>>
          /\ clock' = [day |-> d, off |-> o]
    /\ ticks' = ticks + 1
    /\ UNCHANGED <<pc, argv, preserve_order, opt, noon, config, samples, sunrise,
                   sunset, calls, sunrise_sunset_json, stdout, file0, file,
                   emits, outcome>>

\* Opt::from_args(): time_offset is a usize, so a negative number is a usage
\* error and the process exits; latitude and longitude are any f64.
FromArgs ==
    /\ pc = "from_args"
    /\ IF argv.off < 0
       THEN /\ pc' = "exit"
            /\ outcome' = "usage_error"
            /\ opt' = opt
       ELSE /\ pc' = "dump_opt"
            /\ outcome' = outcome
            /\ opt' = Some([verbose |-> argv.verbose, out |-> argv.out,
                            time_offset |-> argv.off,
                            latitude |-> argv.lat, longitude |-> argv.lon])
    /\ UNCHANGED <<argv, preserve_order, clock, ticks, noon, config, samples,
                   sunrise, sunset, calls, sunrise_sunset_json, stdout, file0,
                   file, emits>>

\* if opt.verbose > 2 { println!("{:#?}", opt); println!("time_offset {}", ..) }
DumpOpt ==
    /\ pc = "dump_opt"
    /\ stdout' = IF opt.val.verbose > 2
                 THEN stdout \o <<Println(DebugOpt(opt.val)),
                                  Println(TimeOffsetLine(opt.val))>>
                 ELSE stdout
    /\ pc' = "today"
    /\ UNCHANGED <<argv, preserve_order, clock, ticks, opt, noon, config, samples,
                   sunrise, sunset, calls, sunrise_sunset_json, file0, file,
                   emits, outcome>>

\* Local::today().and_hms(12, 0, 0): the first reading of the clock gives the
\* calendar day
Today ==
    /\ pc = "today"
    /\ samples' = Append(samples, clock)
    /\ noon' = Some([day |-> clock.day])
    /\ pc' = "today_offset"
    /\ UNCHANGED <<argv, preserve_order, clock, ticks, opt, config, sunrise,
                   sunset, calls, sunrise_sunset_json, stdout, file0, file,
                   emits, outcome>>

\* .with_timezone(&FixedOffset::from_offset(Local::today().offset())): a second
\* reading of the clock gives the offset; then Config is built with the
\* coordinates as given.
TodayOffset ==
    /\ pc = "today_offset"
    /\ samples' = Append(samples, clock)
    /\ config' = Some([day |-> noon.val.day, off |-> clock.off,
                       latitude |-> opt.val.latitude,
                       longitude |-> opt.val.longitude])
    /\ pc' = "calc_sunrise"
    /\ UNCHANGED <<argv, preserve_order, clock, ticks, opt, noon, sunrise, sunset,
                   calls, sunrise_sunset_json, stdout, file0, file, emits,
                   outcome>>

\* calculate_event_time: no time, or an instant carried at the offset of the
\* calculation date
EventTimes == {None} \cup {Some([secs |-> s, off |-> config.val.off]) : s \in EventInstants}

\* let sunrise = calc("sunrise")
CalcSunrise ==
    /\ pc = "calc_sunrise"
    /\ \E ev \in EventTimes : sunrise' = ev
    /\ calls' = [calls EXCEPT !["sunrise"] = @ + 1]
    /\ pc' = "calc_sunset"
    /\ UNCHANGED <<argv, preserve_order, clock, ticks, opt, noon, config, samples,
                   sunset, sunrise_sunset_json, stdout, file0, file, emits,
                   outcome>>

\* calc("sunrise") a second time where calc("sunset") is meant
CalcSunsetAsSunrise ==
    /\ pc = "calc_sunset"
    /\ \E ev \in EventTimes : sunset' = ev
    /\ calls' = [calls EXCEPT !["sunrise"] = @ + 1]
    /\ pc' = "verbose_print"
    /\ UNCHANGED <<argv, preserve_order, clock, ticks, opt, noon, config, samples,
                   sunrise, sunrise_sunset_json, stdout, file0, file, emits,
                   outcome>>

\* let sunset = calc("sunset")
CalcSunset ==
    /\ pc = "calc_sunset"
    /\ \E ev \in EventTimes : sunset' = ev
    /\ calls' = [calls EXCEPT !["sunset"] = @ + 1]
    /\ pc' = "verbose_print"
    /\ UNCHANGED <<argv, preserve_order, clock, ticks, opt, noon, config, samples,
                   sunrise, sunrise_sunset_json, stdout, file0, file, emits,
                   outcome>>

\* if opt.verbose > 0 { println!("sunrise: {} sunset: {}", ..) }: unwrap
\* panics on None
VerbosePrint ==
    /\ pc = "verbose_print"
    /\ IF opt.val.verbose > 0 /\ (~sunrise.some \/ ~sunset.some)
       THEN /\ pc' = "exit"
            /\ outcome' = "panic"
            /\ stdout' = stdout
       ELSE /\ pc' = "build_json"
            /\ outcome' = outcome
            /\ stdout' = IF opt.val.verbose > 0
                         THEN Append(stdout,
                                     Println(SunLine(just_time(sunrise), just_time(sunset))))
                         ELSE stdout
    /\ UNCHANGED <<argv, preserve_order, clock, ticks, opt, noon, config, samples,
                   sunrise, sunset, calls, sunrise_sunset_json, file0, file,
                   emits>>

\* let sunrise_sunset_json = json!({...}): unwrap panics on None
BuildJson ==
    /\ pc = "build_json"
    /\ IF ~sunrise.some \/ ~sunset.some
       THEN /\ pc' = "exit"
            /\ outcome' = "panic"
            /\ sunrise_sunset_json' = sunrise_sunset_json
       ELSE /\ pc' = "emit"
            /\ outcome' = outcome
            /\ sunrise_sunset_json' =
                   Some(Json(FormatTime(just_time(sunrise)), FormatTime(just_time(sunset))))
    /\ UNCHANGED <<argv, preserve_order, clock, ticks, opt, noon, config, samples,
                   sunrise, sunset, calls, stdout, file0, file, emits>>

\* match opt.out { None => println!("{:}", sunrise_sunset_json.to_string()) }
StdoutText == Println(to_string(sunrise_sunset_json.val))

EmitStdout ==
    /\ pc = "emit"
    /\ ~opt.val.out.some
    /\ stdout' = Append(stdout, StdoutText)
    /\ emits' = emits + 1
    /\ pc' = "exit"
    /\ outcome' = "ok"
    /\ UNCHANGED <<argv, preserve_order, clock, ticks, opt, noon, config, samples,
                   sunrise, sunset, calls, sunrise_sunset_json, file0, file>>

\* OpenOptions::new().create(true).write(true).truncate(true).open(oname)?:
\* a failed open leaves the file as it was and ends main with the error; a
\* successful one leaves it empty.
OpenFile ==
    /\ pc = "emit"
    /\ opt.val.out.some
    /\ \E opened \in BOOLEAN :
          IF opened
          THEN /\ file' = Some(<<>>)
               /\ pc' = "to_writer"
               /\ outcome' = outcome
          ELSE /\ file' = file
               /\ pc' = "exit"
               /\ outcome' = "io_error"
    /\ UNCHANGED <<argv, preserve_order, clock, ticks, opt, noon, config, samples,
                   sunrise, sunset, calls, sunrise_sunset_json, stdout, file0,
                   emits>>

\* The line println! makes of the document, were it written to the file
FileTextLine == StdoutText

\* The text to_writer produces
FileText == to_string(sunrise_sunset_json.val)

\* serde_json::to_writer(&file, &sunrise_sunset_json)?: the serializer writes
\* straight to the unbuffered file; an error after n bytes leaves them there
\* and ends main with the error.
WriteFile ==
    /\ pc = "to_writer"
    /\ \E n \in 0..Len(FileText) :
          /\ file' = Some(SubSeq(FileText, 1, n))
          /\ outcome' = IF n = Len(FileText) THEN "ok" ELSE "io_error"
    /\ emits' = emits + 1
    /\ pc' = "exit"
    /\ UNCHANGED <<argv, preserve_order, clock, ticks, opt, noon, config, samples,
                   sunrise, sunset, calls, sunrise_sunset_json, stdout, file0>>

Next ==
    \/ Tick
    \/ FromArgs
    \/ DumpOpt
    \/ Today
    \/ TodayOffset
    \/ CalcSunrise
    \/ CalcSunset
    \/ VerbosePrint
    \/ BuildJson
    \/ EmitStdout
    \/ OpenFile
    \/ WriteFile

Spec == Init /\ [][Next]_vars


----------------------------------------------------------------------------
(* What the claims speak of *)

Exited == pc = "exit"
Succeeded == pc = "exit" /\ outcome = "ok"
BothSome == sunrise.some /\ sunset.some
CalledOnce == calls["sunrise"] = 1 /\ calls["sunset"] = 1

\* The document a successful run left in its sink: the file's content, or the
\* last line on stdout without its terminator.
Emitted ==
    IF opt.val.out.some THEN file.val
    ELSE SubSeq(stdout[Len(stdout)], 1, Len(stdout[Len(stdout)]) - 1)

\* The value of member key in a document, read back from the text.
MemberStart(doc, key) ==
    LET pat == JsonString(key) \o <<":", Q>>
    IN  CHOOSE i \in 1..(Len(doc) - Len(pat) + 1) : SubSeq(doc, i, i + Len(pat) - 1) = pat
FieldOf(doc, key) ==
    LET from == MemberStart(doc, key) + Len(key) + 4
    IN  SubSeq(doc, from, from + 7)

IsDigit(c) == \E i \in 1..Len(Digits) : Digits[i] = c
IsClock(t) ==
    /\ Len(t) = 8
    /\ \A i \in {1, 2, 4, 5, 7, 8} : IsDigit(t[i])
    /\ t[3] = ":" /\ t[6] = ":"

\* text is {"k1":"HH:MM:SS","k2":"HH:MM:SS"} and nothing else
HasShape(text, k1, k2) ==
    \E a, b \in {SubSeq(text, i, i + 7) : i \in 1..(Len(text) - 7)} :
        /\ IsClock(a) /\ IsClock(b)
        /\ text = <<"{">> \o JsonString(k1) \o <<":">> \o JsonString(a) \o <<",">>
                  \o JsonString(k2) \o <<":">> \o JsonString(b) \o <<"}">>

IsDocument(text) ==
    HasShape(text, KeyDayStart, KeyDayEnd) \/ HasShape(text, KeyDayEnd, KeyDayStart)

\* A time of day moved by d minutes
Shift(t, d) == (t + 60 * d) % SecondsPerDay

OutOfRange == argv.lat < -90 \/ argv.lat > 90 \/ argv.lon < -180 \/ argv.lon > 180

\* What the sink has received: lines on stdout, or documents handed to the file
SinkWrites == IF argv.out.some THEN emits ELSE Len(stdout)

Clock071236 == <<"0", "7", ":", "1", "2", ":", "3", "6">>
Clock170342 == <<"1", "7", ":", "0", "3", ":", "4", "2">>

----------------------------------------------------------------------------
(* The claims *)

\* C1: on every successful run with offset d, day_start is the time of day of
\* (raw sunrise + d minutes) and day_end that of (raw sunset - d minutes).
C1_OffsetApplied ==
    Succeeded =>
        /\ FieldOf(Emitted, KeyDayStart)
             = FormatTime(Shift(TimeOf(sunrise.val), opt.val.time_offset))
        /\ FieldOf(Emitted, KeyDayEnd)
             = FormatTime(Shift(TimeOf(sunset.val), -opt.val.time_offset))

\* C2: when the calculator answered None for sunrise or sunset, the run ends
\* in a NoEventError failure (not a panic), with no document and nothing in
\* the sink.
C2_NoEventIsError ==
    (Exited /\ CalledOnce /\ ~BothSome) =>
        /\ outcome = "no_event_error"
        /\ emits = 0
        /\ sunrise_sunset_json = None

\* C3: with a latitude outside [-90, 90] or a longitude outside [-180, 180]
\* the calculator is never called, no document is built or written, and the
\* run ends in a ConfigurationError.
C3_RangeChecked ==
    OutOfRange =>
        /\ calls["sunrise"] = 0 /\ calls["sunset"] = 0
        /\ sunrise_sunset_json = None
        /\ emits = 0
        /\ Exited => outcome \in {"configuration_error", "usage_error"}

\* C4: when the run has ended, the sink holds the complete document or is as
\* it was before the run; a failing run has written nothing to stdout.
C4_AllOrNothing ==
    Exited =>
        /\ argv.out.some => (file = file0 \/ (file.some /\ IsDocument(file.val)))
        /\ ~argv.out.some =>
               (stdout = <<>> \/ (outcome = "ok" /\ IsDocument(Emitted)))
        /\ outcome # "ok" => stdout = <<>>

\* C4, the file sink alone: when the run has ended the named file is as it
\* was before the run or holds the complete document.
C4_FileSinkIntact ==
    (Exited /\ argv.out.some) => (file = file0 \/ (file.some /\ IsDocument(file.val)))

\* C5: on every successful run the document is exactly
\* {"day_start":"HH:MM:SS","day_end":"HH:MM:SS"}, day_start first.
C5_DayStartFirst == Succeeded => HasShape(Emitted, KeyDayStart, KeyDayEnd)

\* C6 as stated: the file written with --out equals, byte for byte, all that
\* the run prints to stdout without --out: its diagnostics and the document
\* line with its terminator.
C6_FileEqualsStdout ==
    (Succeeded /\ argv.out.some) => file.val = Flatten(stdout) \o StdoutText

\* C6 as amended: the file written with --out holds exactly the document that
\* the last line on stdout holds without --out, less the line terminator and
\* the diagnostics.
C6_FileIsStdoutDocument ==
    Succeeded =>
        /\ argv.out.some => (file.some /\ Println(file.val) = StdoutText)
        /\ ~argv.out.some => stdout[Len(stdout)] = StdoutText

C6_Witness ==
    /\ Succeeded /\ argv.out.some /\ argv.verbose = MaxVerbose
    /\ Len(stdout) = 3
    /\ FieldOf(file.val, KeyDayStart) = Clock071236

\* C7: with offset 0 and both events Some, day_start is the time of day of
\* the raw sunrise and day_end that of the raw sunset.
C7_ZeroOffsetIsRaw ==
    (Succeeded /\ opt.val.time_offset = 0) =>
        /\ BothSome
        /\ FieldOf(Emitted, KeyDayStart) = FormatTime(TimeOf(sunrise.val))
        /\ FieldOf(Emitted, KeyDayEnd) = FormatTime(TimeOf(sunset.val))

C7_Witness ==
    /\ Succeeded /\ opt.val.time_offset = 0
    /\ FieldOf(Emitted, KeyDayStart) = Clock071236
    /\ FieldOf(Emitted, KeyDayEnd) = Clock170342

\* C8: every offset, negative ones too, is accepted on the command line, and
\* an accepted offset d moves sunrise by d and sunset by -d minutes (so that a
\* negative one moves sunrise earlier and sunset later, and d then -d is the
\* identity).
C8_SignedOffset ==
    /\ Exited => outcome # "usage_error"
    /\ (Succeeded /\ opt.val.time_offset < 0) =>
           FieldOf(Emitted, KeyDayStart)
             = FormatTime(Shift(TimeOf(sunrise.val), opt.val.time_offset))

\* C9 as stated: in every run (one whose command line was accepted) the
\* calculator is invoked exactly once per event, after input assembly and
\* before anything is written to the sink, and the sink is written at most
\* once.
C9_OnceBeforeAnyWrite ==
    /\ (Exited /\ outcome # "usage_error") => CalledOnce
    /\ (calls["sunrise"] > 0 \/ calls["sunset"] > 0) => config.some
    /\ SinkWrites > 0 => CalledOnce
    /\ SinkWrites <= 1

\* C9 as amended: in every run whose command line is accepted the calculator
\* is invoked exactly once per event, after input assembly and before the
\* document is handed to the sink or the file is touched, and the document is
\* handed to the sink at most once.
C9_OnceBeforeDocument ==
    /\ calls["sunrise"] <= 1 /\ calls["sunset"] <= 1
    /\ (Exited /\ outcome # "usage_error") => CalledOnce
    /\ (calls["sunrise"] > 0 \/ calls["sunset"] > 0) => config.some
    /\ (emits > 0 \/ file # file0 \/ sunrise_sunset_json.some) => CalledOnce
    /\ emits <= 1

C9_Witness ==
    /\ Succeeded /\ ~argv.out.some /\ argv.verbose > 2
    /\ Len(stdout) = 4 /\ emits = 1 /\ CalledOnce

\* C10: the calendar day and the UTC offset of the calculation date are those
\* of one reading of the clock.
C10_OneClockReading ==
    config.some =>
        \E i \in 1..Len(samples) :
            samples[i].day = config.val.day /\ samples[i].off = config.val.off

=============================================================================
